---- MODULE Spec2Model ----
(***************************************************************************)
(* Model of tag_generator.py: GeradorTags.iniciar and the methods it       *)
(* calls, run as a process against a filesystem (input directory imgs,    *)
(* output directory txts with its sidecar files and _erros.log) and the   *)
(* remote tagging service.  One process execution is one "run"; the       *)
(* filesystem survives from one run to the next.                          *)
(***************************************************************************)
EXTENDS Integers, Sequences, FiniteSets, TLC

\* Largest number of entries the input directory holds.
MaxEntradas == 2
\* Number of consecutive process executions on the same directories.
MaxExecucoes == 2

----------------------------------------------------------------------------
(* File names are sequences of characters; Alphabet lists the characters   *)
(* used, in code-point order, so that Ord compares as str does.            *)

Alphabet ==
    << ".", "B", "G", "J", "P", "_", "a", "b", "c", "d", "e", "f", "g",
       "i", "j", "l", "m", "n", "o", "p", "r", "s", "t", "w", "x" >>

\* position of each character in Alphabet
OrdTable ==
    [c \in { Alphabet[i] : i \in 1..Len(Alphabet) } |->
        CHOOSE i \in 1..Len(Alphabet) : Alphabet[i] = c]

Ord(c) == OrdTable[c]

\* str.lower() on one character
LowerChar(c) ==
    CASE c = "B" -> "b"
      [] c = "G" -> "g"
      [] c = "J" -> "j"
      [] c = "P" -> "p"
      [] OTHER -> c

\* str.lower()
Lower(s) == [i \in 1..Len(s) |-> LowerChar(s[i])]

\* str.rfind("."): index of the last dot, 0 when there is none
RFindDot(s) ==
    IF \E i \in 1..Len(s) : s[i] = "."
    THEN CHOOSE i \in 1..Len(s) :
             s[i] = "." /\ \A j \in (i+1)..Len(s) : s[j] # "."
    ELSE 0

\* PurePath.suffix: from the last dot, unless the dot starts or ends the name
Suffix(name) ==
    LET i == RFindDot(name) IN
    IF 1 < i /\ i < Len(name) THEN SubSeq(name, i, Len(name)) ELSE << >>

\* PurePath.stem: the name without its suffix
Stem(name) ==
    LET i == RFindDot(name) IN
    IF 1 < i /\ i < Len(name) THEN SubSeq(name, 1, i - 1) ELSE name

\* Config.EXTENSOES
EXTENSOES ==
    { << ".", "j", "p", "g" >>, << ".", "j", "p", "e", "g" >>,
      << ".", "p", "n", "g" >>, << ".", "g", "i", "f" >>,
      << ".", "w", "e", "b", "p" >>, << ".", "b", "m", "p" >> }

\* the ".txt" of f"{imagem.stem}.txt"
TxtExt == << ".", "t", "x", "t" >>

\* Path < Path for two entries of the same directory: str comparison of names
LexLess(a, b) ==
    \/ \E k \in 1..Len(a) :
          /\ k <= Len(b)
          /\ \A j \in 1..(k-1) : a[j] = b[j]
          /\ Ord(a[k]) < Ord(b[k])
    \/ /\ Len(a) < Len(b)
       /\ \A j \in 1..Len(a) : a[j] = b[j]

RECURSIVE Insert(_, _)
Insert(x, s) ==
    IF s = << >> THEN << x >>
    ELSE IF LexLess(x.name, Head(s).name) THEN << x >> \o s
    ELSE << Head(s) >> \o Insert(x, Tail(s))

RECURSIVE InsertionSort(_)
InsertionSort(s) ==
    IF s = << >> THEN << >>
    ELSE Insert(s[Len(s)], InsertionSort(SubSeq(s, 1, Len(s) - 1)))

\* a mutant of Ordenar: the listing is used in the order iterdir gave it
OrdenarSemSort(s) == s

\* sorted([...])
Ordenar(s) == InsertionSort(s)

\* the comprehension's condition: arq.is_file() and arq.suffix.lower() in EXTENSOES
Selecionavel(arq) == arq.isFile /\ Lower(Suffix(arq.name)) \in EXTENSOES

RECURSIVE Filtrar(_)
Filtrar(s) ==
    IF s = << >> THEN << >>
    ELSE IF Selecionavel(Head(s)) THEN << Head(s) >> \o Filtrar(Tail(s))
    ELSE Filtrar(Tail(s))

\* _listar_imagens applied to what iterdir yielded
ListarImagens(listagem) == Ordenar(Filtrar(listagem))

\* a mutant of CaminhoTxt: the sidecar is named after the image's full name
CaminhoNomeCompleto(imagem) == imagem.name

\* caminho_txt = Config.PASTA_SAIDA / f"{imagem.stem}.txt"
CaminhoTxt(imagem) == Stem(imagem.name) \o TxtExt

\* a mutant of Existe: the existence check never finds the sidecar
ExisteNunca(caminho, fs) == FALSE

\* caminho_txt.exists()
Existe(caminho, fs) == caminho \in DOMAIN fs

\* a mutant of Escrever: the write is lost, no file appears
EscreverNada(fs, caminho, conteudo) == fs

\* open(destino, "w") followed by f.write: the file holds what was written
Escrever(fs, caminho, conteudo) ==
    [p \in DOMAIN fs \cup {caminho} |-> IF p = caminho THEN conteudo ELSE fs[p]]

----------------------------------------------------------------------------
(* The environment: directory entries and service responses.               *)

Nome_a_png  == << "a", ".", "p", "n", "g" >>
Nome_a_jpg  == << "a", ".", "j", "p", "g" >>
Nome_B_JPG  == << "B", ".", "J", "P", "G" >>
Nome_c_tiff == << "c", ".", "t", "i", "f", "f" >>
Nome_d_gif  == << "d", ".", "g", "i", "f" >>

\* what the input directory may hold: images, a file of another type, a
\* sub-directory with an image-like name
Entradas ==
    { [name |-> Nome_a_png,  isFile |-> TRUE],
      [name |-> Nome_a_jpg,  isFile |-> TRUE],
      [name |-> Nome_B_JPG,  isFile |-> TRUE],
      [name |-> Nome_c_tiff, isFile |-> TRUE],
      [name |-> Nome_d_gif,  isFile |-> FALSE] }

\* tag strings, as sequences of tags
TagStrings == { << "1girl", "solo" >>, << "cat" >> }

\* content of a sidecar left by an earlier execution of the program
TagsAntigas == << "old" >>

\* elements a response can carry: a str, or a value that is not a str
Elementos ==
    { [str |-> TRUE, val |-> t] : t \in TagStrings }
      \cup { [str |-> FALSE, val |-> << >>] }

\* what client.predict returns when it returns
Respostas == { << >> } \cup { << e >> : e \in Elementos }

ProperPrefixes(t) == { SubSeq(t, 1, k) : k \in 0..(Len(t) - 1) }

Permutacoes(S) ==
    { s \in [1..Cardinality(S) -> S] :
        \A i, j \in 1..Cardinality(S) : i # j => s[i] # s[j] }

----------------------------------------------------------------------------
VARIABLES
    pc,           \* where the process is: "start", "verificar", "listar",
                  \* "conectar", "lote", "relatorio", "exited"
    execucao,     \* number of the current process execution
    installed,    \* whether gradio_client can be imported
    inDirExists,  \* Config.PASTA_ENTRADA.exists()
    dir,          \* entries of the input directory
    outDirExists, \* Config.PASTA_SAIDA.exists()
    files,        \* sidecar files of the output directory: name -> content
    errosLog,     \* lines of txts/_erros.log
    imagens,      \* the list _listar_imagens returned
    idx,          \* position of the for loop of _processar_lote
    client,       \* whether self.client is set
    stats,        \* self.stats
    exitStatus,   \* exit status of the process, -1 while it runs
    causa,        \* why the process ended
    relatorio,    \* whether _exibir_relatorio_final has printed
    listou,       \* whether _listar_imagens has returned
    tentativas,   \* Client(...) constructions attempted in this execution
    calls,        \* client.predict calls made in this execution
    handled,      \* history of this execution's loop iterations
    files0,       \* files when this execution started
    log0,         \* errosLog when this execution started
    prev          \* how the previous execution ended

vars == << pc, execucao, installed, inDirExists, dir, outDirExists, files,
           errosLog, imagens, idx, client, stats, exitStatus, causa,
           relatorio, listou, tentativas, calls, handled, files0, log0, prev >>

env == << installed, inDirExists, dir >>
disco == << outDirExists, files, errosLog >>
ghost0 == << files0, log0, prev, execucao >>

\* self.stats = {"sucesso": 0, "falha": 0, "ignorado": 0}
StatsIniciais == [sucesso |-> 0, falha |-> 0, ignorado |-> 0]

\* sidecars an earlier use of the program may have left in txts
SidecarsAntigos == { Stem(Nome_a_png) \o TxtExt, Stem(Nome_B_JPG) \o TxtExt }

Init ==
    /\ pc = "start"
    /\ execucao = 1
    /\ installed \in BOOLEAN
    /\ inDirExists \in BOOLEAN
    /\ dir \in { d \in SUBSET Entradas : Cardinality(d) <= MaxEntradas }
    /\ (~inDirExists => dir = {})
    /\ outDirExists \in BOOLEAN
    /\ \E antigos \in SUBSET SidecarsAntigos :
          /\ (~outDirExists => antigos = {})
          /\ files = [p \in antigos |-> TagsAntigas]
    /\ errosLog = << >>
    /\ imagens = << >>
    /\ idx = 1
    /\ client = FALSE
    /\ stats = StatsIniciais
    /\ exitStatus = -1
    /\ causa = "nenhuma"
    /\ relatorio = FALSE
    /\ listou = FALSE
    /\ tentativas = 0
    /\ calls = 0
    /\ handled = << >>
    /\ files0 = files
    /\ log0 = errosLog
    /\ prev = [causa |-> "nenhuma", falha |-> 0]

\* a mutant of CodigoSaida: a failed connection ends the process like
\* sys.exit(1)
CodigoSaidaConexao1(c) ==
    IF c \in {"import", "excecao", "conexao"} THEN 1 ELSE 0

\* exit status of the process for each way it ends: sys.exit(1) and an
\* uncaught exception give 1, a return from iniciar gives 0
CodigoSaida(c) == IF c \in {"import", "excecao"} THEN 1 ELSE 0

Sair(c) ==
    /\ pc' = "exited"
    /\ causa' = c
    /\ exitStatus' = CodigoSaida(c)

\* the module's import guard, import succeeds
ImportOk ==
    /\ pc = "start"
    /\ installed
    /\ pc' = "verificar"
    /\ UNCHANGED << env, disco, imagens, idx, client, stats, exitStatus, causa,
                    relatorio, listou, tentativas, calls, handled, ghost0 >>

\* the module's import guard, ImportError: sys.exit(1)
ImportFalha ==
    /\ pc = "start"
    /\ ~installed
    /\ Sair("import")
    /\ UNCHANGED << env, disco, imagens, idx, client, stats,
                    relatorio, listou, tentativas, calls, handled, ghost0 >>

\* _verificar_pastas returns False and iniciar returns
VerificarPastasFalha ==
    /\ pc = "verificar"
    /\ ~inDirExists
    /\ Sair("sem_pasta")
    /\ UNCHANGED << env, disco, imagens, idx, client, stats,
                    relatorio, listou, tentativas, calls, handled, ghost0 >>

\* _verificar_pastas creates the output directory when absent, returns True
VerificarPastasOk ==
    /\ pc = "verificar"
    /\ inDirExists
    /\ outDirExists' = TRUE
    /\ pc' = "listar"
    /\ UNCHANGED << env, files, errosLog, imagens, idx, client, stats,
                    exitStatus, causa, relatorio, listou, tentativas, calls,
                    handled, ghost0 >>

\* a mutant of AposListar: an empty list does not end the run
AposListarSempreConecta(imgs) == "conectar"

\* if not imagens: return
AposListar(imgs) == IF imgs = << >> THEN "exited" ELSE "conectar"

\* imagens = self._listar_imagens() and the test that follows; iterdir
\* yields the entries in an arbitrary order
Listar ==
    /\ pc = "listar"
    /\ \E listagem \in Permutacoes(dir) :
          /\ imagens' = ListarImagens(listagem)
          /\ listou' = TRUE
          /\ IF AposListar(imagens') = "exited"
             THEN Sair("vazio")
             ELSE /\ pc' = AposListar(imagens')
                  /\ UNCHANGED << exitStatus, causa >>
    /\ UNCHANGED << env, disco, idx, client, stats, relatorio, tentativas,
                    calls, handled, ghost0 >>

\* a mutant of AposConexao: the run goes on without a client
AposConexaoSempreLote(cl) == "lote"

\* if not self.client: return
AposConexao(cl) == IF cl THEN "lote" ELSE "exited"

\* _conectar_api, Client(...) returns
ConectarOk ==
    /\ pc = "conectar"
    /\ tentativas' = tentativas + 1
    /\ client' = TRUE
    /\ pc' = AposConexao(client')
    /\ UNCHANGED << env, disco, imagens, idx, stats, exitStatus, causa,
                    relatorio, listou, calls, handled, ghost0 >>

\* _conectar_api, Client(...) raises: the exception is caught and printed,
\* self.client stays None
ConectarFalha ==
    /\ pc = "conectar"
    /\ tentativas' = tentativas + 1
    /\ client' = FALSE
    /\ IF AposConexao(client') = "exited"
       THEN Sair("conexao")
       ELSE /\ pc' = AposConexao(client')
            /\ UNCHANGED << exitStatus, causa >>
    /\ UNCHANGED << env, disco, imagens, idx, stats, relatorio, listou, calls,
                    handled, ghost0 >>

\* one line of _erros.log: f"[{time.strftime('%H:%M:%S')}] {arquivo}: {erro}\n"
\* (the time of day is left out)
LinhaLog(arquivo, erro) == [arquivo |-> arquivo, erro |-> erro]

\* one iteration of the loop, as the history keeps it
Passo(imagem, resultado, tags, depois) ==
    [imagem |-> imagem, resultado |-> resultado, tags |-> tags,
     deixou |-> Stem(imagem.name) \o TxtExt \in DOMAIN depois]

NoLote == pc = "lote" /\ idx <= Len(imagens)

\* the loop's branch for an image whose sidecar exists
Pular ==
    /\ NoLote
    /\ Existe(CaminhoTxt(imagens[idx]), files)
    /\ stats' = [stats EXCEPT !.ignorado = @ + 1]
    /\ idx' = idx + 1
    /\ handled' = Append(handled, Passo(imagens[idx], "ignorado", << >>, files))
    /\ UNCHANGED << env, disco, pc, imagens, client, exitStatus, causa,
                    relatorio, listou, tentativas, calls, ghost0 >>

\* _gerar_e_salvar returns True: predict returned, resultado[0] is a str,
\* the file was opened and written
GerarSucesso ==
    /\ NoLote
    /\ ~Existe(CaminhoTxt(imagens[idx]), files)
    /\ client
    /\ \E resultado \in Respostas :
          /\ resultado # << >>
          /\ resultado[1].str
          /\ files' = Escrever(files, CaminhoTxt(imagens[idx]), resultado[1].val)
          /\ handled' = Append(handled,
                               Passo(imagens[idx], "sucesso", resultado[1].val,
                                     files'))
    /\ calls' = calls + 1
    /\ stats' = [stats EXCEPT !.sucesso = @ + 1]
    /\ idx' = idx + 1
    /\ UNCHANGED << env, outDirExists, errosLog, pc, imagens, client,
                    exitStatus, causa, relatorio, listou, tentativas, ghost0 >>

\* The ways the try block of _gerar_e_salvar raises, each with the error it
\* logs and the file it leaves: predict raises (also when self.client is
\* None); resultado[0] raises; open(destino, "w") raises; f.write raises
\* after open created the file (tags is not a str, or an I/O error after
\* part of the text was written).
Falhas(imagem) ==
    { [erro |-> "predict", deixa |-> FALSE, conteudo |-> << >>] }
    \cup
    (IF client
     THEN { [erro |-> "resultado", deixa |-> FALSE, conteudo |-> << >>],
            [erro |-> "open", deixa |-> FALSE, conteudo |-> << >>] }
          \cup { [erro |-> "write", deixa |-> TRUE, conteudo |-> c] :
                   c \in {<< >>} \cup UNION { ProperPrefixes(t) : t \in TagStrings } }
     ELSE {})

\* the filesystem after a failed attempt
AposFalha(f, imagem) ==
    IF f.deixa THEN Escrever(files, CaminhoTxt(imagem), f.conteudo) ELSE files

\* _gerar_e_salvar returns False: the exception is caught, _log_erro appends
\* a line
GerarFalha ==
    /\ NoLote
    /\ ~Existe(CaminhoTxt(imagens[idx]), files)
    /\ \E f \in Falhas(imagens[idx]) :
          /\ files' = AposFalha(f, imagens[idx])
          /\ errosLog' = Append(errosLog, LinhaLog(imagens[idx].name, f.erro))
    /\ handled' = Append(handled, Passo(imagens[idx], "falha", << >>, files'))
    /\ calls' = calls + 1
    /\ stats' = [stats EXCEPT !.falha = @ + 1]
    /\ idx' = idx + 1
    /\ UNCHANGED << env, outDirExists, pc, imagens, client, exitStatus, causa,
                    relatorio, listou, tentativas, ghost0 >>

\* the exception is caught and open(log_path, "a") of _log_erro raises
\* inside the except block: the exception leaves _gerar_e_salvar,
\* _processar_lote and iniciar, and the process ends with a traceback
GerarFalhaLogFalha ==
    /\ NoLote
    /\ ~Existe(CaminhoTxt(imagens[idx]), files)
    /\ \E f \in Falhas(imagens[idx]) :
          files' = AposFalha(f, imagens[idx])
    /\ handled' = Append(handled, Passo(imagens[idx], "falha", << >>, files'))
    /\ calls' = calls + 1
    /\ Sair("excecao")
    /\ UNCHANGED << env, outDirExists, errosLog, imagens, idx, client, stats,
                    relatorio, listou, tentativas, ghost0 >>

\* the loop is exhausted; self.stats["tempo_total"] is set
FimLote ==
    /\ pc = "lote"
    /\ idx > Len(imagens)
    /\ pc' = "relatorio"
    /\ UNCHANGED << env, disco, imagens, idx, client, stats, exitStatus,
                    causa, relatorio, listou, tentativas, calls, handled,
                    ghost0 >>

\* _exibir_relatorio_final prints, iniciar returns, the process ends
Relatorio ==
    /\ pc = "relatorio"
    /\ relatorio' = TRUE
    /\ Sair("normal")
    /\ UNCHANGED << env, disco, imagens, idx, client, stats, listou,
                    tentativas, calls, handled, ghost0 >>

\* the program is started again on the same directories: a new process, a
\* new GeradorTags
NovaExecucao ==
    /\ pc = "exited"
    /\ execucao < MaxExecucoes
    /\ execucao' = execucao + 1
    /\ prev' = [causa |-> causa, falha |-> stats.falha]
    /\ files0' = files
    /\ log0' = errosLog
    /\ pc' = "start"
    /\ imagens' = << >>
    /\ idx' = 1
    /\ client' = FALSE
    /\ stats' = StatsIniciais
    /\ exitStatus' = -1
    /\ causa' = "nenhuma"
    /\ relatorio' = FALSE
    /\ listou' = FALSE
    /\ tentativas' = 0
    /\ calls' = 0
    /\ handled' = << >>
    /\ UNCHANGED << env, disco >>

Next ==
    \/ ImportOk
    \/ ImportFalha
    \/ VerificarPastasFalha
    \/ VerificarPastasOk
    \/ Listar
    \/ ConectarOk
    \/ ConectarFalha
    \/ Pular
    \/ GerarSucesso
    \/ GerarFalha
    \/ GerarFalhaLogFalha
    \/ FimLote
    \/ Relatorio
    \/ NovaExecucao

Spec == Init /\ [][Next]_vars

----------------------------------------------------------------------------
(* Properties.                                                             *)

\* the sidecar path the documentation gives an image: <output_dir>/<stem>.txt
Sidecar(imagem) == Stem(imagem.name) \o TxtExt

\* the lines _erros.log gained in this execution
NovasLinhas == SubSeq(errosLog, Len(log0) + 1, Len(errosLog))

\* the loop iterations of this execution whose handling failed
Falharam == { i \in 1..Len(handled) : handled[i].resultado = "falha" }

\* this execution entered _processar_lote and the process has ended
LoteTerminou == pc = "exited" /\ causa \in {"normal", "excecao"}

\* C1 (as stated): a failure while handling one image never aborts the
\* batch, every later image is still handled, and a run of n images with no
\* pre-existing sidecars whose handling fails for the images of F ends with
\* succeeded = n - |F|, failed = |F|, skipped = 0 and exactly |F| new log
\* lines, one naming each image of F.
C1_FailureNeverAbortsBatch ==
    (/\ LoteTerminou
     /\ \A i \in 1..Len(imagens) : Sidecar(imagens[i]) \notin DOMAIN files0)
    => /\ causa = "normal"
       /\ Len(handled) = Len(imagens)
       /\ stats.sucesso = Len(imagens) - Cardinality(Falharam)
       /\ stats.falha = Cardinality(Falharam)
       /\ stats.ignorado = 0
       /\ Len(NovasLinhas) = Cardinality(Falharam)
       /\ \A i \in Falharam :
             Cardinality({ k \in 1..Len(NovasLinhas) :
                             NovasLinhas[k].arquivo = handled[i].imagem.name }) = 1

\* C2 (as stated): when the batch is run twice in a row on unchanged
\* directories, the second run makes no predict call and records every
\* image as skipped.
C2_SecondRunAllSkipped ==
    (execucao >= 2 /\ prev.causa = "normal" /\ pc = "exited" /\ causa = "normal")
    => /\ calls = 0
       /\ stats.ignorado = Len(imagens)
       /\ stats.sucesso = 0
       /\ stats.falha = 0

\* C2 (amended): when a run completed its batch with failed = 0, the next
\* run on the unchanged directories makes no predict call, records no
\* success and no failure, and once its loop is over has recorded every
\* image as skipped.
C2_SecondRunAfterCleanRun ==
    (execucao >= 2 /\ prev.causa = "normal" /\ prev.falha = 0)
    => /\ calls = 0
       /\ stats.sucesso = 0
       /\ stats.falha = 0
       /\ causa # "excecao"
       /\ (pc = "relatorio" \/ relatorio) => stats.ignorado = Len(imagens)

\* a second run ended with everything skipped, after a first run that wrote
\* a sidecar
C2_Witness ==
    /\ execucao >= 2
    /\ prev.causa = "normal"
    /\ prev.falha = 0
    /\ pc = "exited"
    /\ relatorio
    /\ Len(imagens) > 0
    /\ stats.ignorado = Len(imagens)
    /\ \E p \in DOMAIN files : files[p] \in TagStrings

\* C3: no step changes or removes a sidecar that exists, and an image whose
\* sidecar path exists is recorded as skipped without a predict call (also
\* when the sidecar comes from another image with the same stem).
C3_NeverOverwrites ==
    [][ /\ \A p \in DOMAIN files : p \in DOMAIN files' /\ files'[p] = files[p]
        /\ (/\ pc = "lote"
            /\ idx <= Len(imagens)
            /\ Sidecar(imagens[idx]) \in DOMAIN files)
           => /\ calls' = calls
              /\ idx' = idx + 1
              /\ stats' = [stats EXCEPT !.ignorado = @ + 1] ]_vars

\* a.jpg was tagged and a.png, of the same stem, was then skipped
C3_Witness ==
    \E i, j \in 1..Len(handled) :
        /\ i < j
        /\ handled[i].resultado = "sucesso"
        /\ handled[j].resultado = "ignorado"
        /\ handled[i].imagem.name # handled[j].imagem.name
        /\ Sidecar(handled[i].imagem) = Sidecar(handled[j].imagem)
        /\ files[Sidecar(handled[j].imagem)] = handled[i].tags

\* C4 (as stated): when a run that reached _processar_lote has ended, every
\* image the run reached has its sidecar, or a line of this run in the error
\* log naming it, or was skipped because its sidecar existed.
C4_EveryImageAccounted ==
    LoteTerminou
    => \A i \in 1..Len(handled) :
          \/ Sidecar(handled[i].imagem) \in DOMAIN files
          \/ \E k \in 1..Len(NovasLinhas) :
                NovasLinhas[k].arquivo = handled[i].imagem.name
          \/ handled[i].resultado = "ignorado"

\* C5: whenever an image is recorded as succeeded, <stem>.txt exists and
\* holds exactly the first element of the response for that image, and no
\* file of the output directory bears an image's full name.
C5_OutputCorrect ==
    /\ stats.sucesso =
         Cardinality({ i \in 1..Len(handled) : handled[i].resultado = "sucesso" })
    /\ \A i \in 1..Len(handled) :
          handled[i].resultado = "sucesso"
          => /\ Sidecar(handled[i].imagem) \in DOMAIN files
             /\ files[Sidecar(handled[i].imagem)] = handled[i].tags
             /\ handled[i].tags \in TagStrings
    /\ \A e \in dir : e.name \notin DOMAIN files

\* a.png succeeded with the response "1girl, solo"
C5_Witness ==
    \E i \in 1..Len(handled) :
        /\ handled[i].resultado = "sucesso"
        /\ handled[i].imagem.name = Nome_a_png
        /\ stats.sucesso >= 1
        /\ files[Stem(Nome_a_png) \o TxtExt] = << "1girl", "solo" >>

\* C6: after a failed connection the run is over and has touched no image:
\* no predict call, no sidecar written, no log line, statistics at zero, no
\* report.
C6_ConnectFailureTouchesNothing ==
    (tentativas > 0 /\ ~client)
    => /\ pc = "exited"
       /\ calls = 0
       /\ handled = << >>
       /\ files = files0
       /\ errosLog = log0
       /\ stats = StatsIniciais
       /\ ~relatorio

\* the connection failed with an image waiting whose sidecar is missing
C6_Witness ==
    /\ pc = "exited"
    /\ tentativas = 1
    /\ ~client
    /\ \E i \in 1..Len(imagens) : Sidecar(imagens[i]) \notin DOMAIN files

\* C7 (as stated): a connection failure ends the process with a nonzero
\* exit status, as a missing dependency does, and exit status 0 is reached
\* only on normal completion of the batch (the returns for a missing input
\* directory and for an empty listing, which the documentation describes as
\* clean, are counted with normal completion).
C7_ConnectFailureExitsNonzero ==
    pc = "exited"
    => /\ (tentativas > 0 /\ ~client) => exitStatus # 0
       /\ ~installed => exitStatus # 0
       /\ exitStatus = 0 => (relatorio \/ ~inDirExists \/ imagens = << >>)

\* C7 (amended): a connection failure ends the run at once but the process
\* exits with status 0; a missing dependency exits with status 1; a nonzero
\* status comes only from a missing dependency or an exception that escapes
\* the run; normal completion exits 0.
C7_ConnectFailureExitsZero ==
    pc = "exited"
    => /\ (tentativas > 0 /\ ~client) => exitStatus = 0
       /\ ~installed => exitStatus = 1
       /\ relatorio => exitStatus = 0
       /\ exitStatus # 0 => (~installed \/ causa = "excecao")

\* the process has ended on a failed connection
C7_Witness ==
    /\ pc = "exited"
    /\ installed
    /\ tentativas = 1
    /\ ~client
    /\ exitStatus = 0
    /\ imagens # << >>

\* the entries with an accepted extension that are regular files
Qualificadas ==
    { e \in Entradas : e.isFile /\ Lower(Suffix(e.name)) \in EXTENSOES }

\* the pairs of entries in strictly increasing lexicographic order of name
Antes ==
    { par \in Entradas \X Entradas : LexLess(par[1].name, par[2].name) }

C9_EmptyInputNoConnection ==
    (listou /\ imagens = << >>)
    => /\ pc = "exited"
       /\ tentativas = 0
       /\ ~client
       /\ calls = 0
       /\ ~relatorio
       /\ exitStatus = 0

\* the input directory holds entries but none qualifies
C9_Witness ==
    /\ listou
    /\ imagens = << >>
    /\ dir # {}
    /\ pc = "exited"

\* C10 (as stated): an attempt recorded as failed leaves no sidecar behind,
\* so the sidecars created during a run are as many as the succeeded
\* counter says.
C10_FailureLeavesNoSidecar ==
    /\ \A i \in 1..Len(handled) :
          handled[i].resultado = "falha" => ~handled[i].deixou
    /\ Cardinality(DOMAIN files \ DOMAIN files0) = stats.sucesso

====
